---- MODULE Spec2Model ----
(***************************************************************************)
(* mrhorse (lib/index.js): a registry of named policies bound to the six   *)
(* hapi request-lifecycle extension points, the per-stage handler that     *)
(* resolves a route's policy list, and the sequential fail-fast executor.  *)
(***************************************************************************)
EXTENDS Integers, Sequences, FiniteSets, TLC

(* ------------------------------------------------------------------ *)
(* Bounds of the model                                                 *)
(* ------------------------------------------------------------------ *)

\* most handlers the host holds for one apply point (each reset allows one more)
MaxExt == 2

\* most completion signals, beyond its first, that the policies of one
\* handler invocation emit in total
MaxExtraSignals == 1

(* ------------------------------------------------------------------ *)
(* Values                                                              *)
(* ------------------------------------------------------------------ *)

\* lib/index.js:10-15
applyPoints ==
    << "onRequest", "onPreAuth", "onPostAuth",
       "onPreHandler", "onPostHandler", "onPreResponse" >>

ApplyPointSet == { applyPoints[i] : i \in 1..Len(applyPoints) }

\* values of a policy's applyPoint attribute: absent, the falsy value false,
\* a string that names no apply point, or an apply point
Undefined == "<undefined>"
False == "<false>"
Bogus == "bogus"
ExplicitApplyPoint == "onPostAuth"
Attrs == { Undefined, False, Bogus, ExplicitApplyPoint }

\* !x of JavaScript on the attribute values
Falsy(x) == x \in { Undefined, False }

\* _applyPoints.indexOf(x) !== -1
IsApplyPoint(x) == \E i \in 1..Len(applyPoints) : applyPoints[i] = x

\* lib/index.js:17-20
hasValidApplyPoint(policy) ==
    Falsy(policy.applyPoint) \/ IsApplyPoint(policy.applyPoint)

\* the values options.defaultApplyPoint takes in register (register asserts
\* it is an apply point; 'onPreHandler' when the option is not given)
DefaultChoices == { "onPreHandler", "onPostAuth" }

\* the values options.defaultApplyPoint takes in a call of loadPolicies, which
\* is exposed on the server and asserts nothing about its options
LoadDefaults == { Undefined, Bogus } \cup DefaultChoices

\* lib/index.js:130: options.defaultApplyPoint || 'onPreHandler'
OrPreHandler(option) == IF Falsy(option) THEN "onPreHandler" ELSE option

(* ------------------------------------------------------------------ *)
(* Policy directories                                                  *)
(* ------------------------------------------------------------------ *)

\* the names of the policy files: a name that is nothing else, and one that
\* is also the name of a member of Object.prototype
PolicyNames == { "A", "constructor" }

\* a file of a policy directory: its name before the extension, as the lines
\* that line terminators split it into, the extension, and the applyPoint
\* attribute of the function the file exports
Named(name) == << name >>

JsFiles ==
    [ base : { Named(n) : n \in PolicyNames }, ext : { ".js" }, applyPoint : Attrs ]

Readme == [ base |-> Named("README"), ext |-> ".md", applyPoint |-> Undefined ]

\* what Fs.readdirSync can return: file names in sorted order, no name twice
Directories ==
    { <<>>, << Readme >> }
    \cup { << f >> : f \in JsFiles }
    \cup { << f, g >> : f \in { x \in JsFiles : x.base = Named("A") },
                        g \in { x \in JsFiles : x.base = Named("constructor") } }
    \cup { << f, Readme >> : f \in { x \in JsFiles : x.base = Named("A")
                                       /\ x.applyPoint \in { Undefined, Bogus } } }

\* the names of the policy files of the loads that are followed without
\* requests: a name that is nothing else, and the name whose assignment sets
\* a prototype
RegistryNames == { "A", "__proto__" }

RegistryFiles ==
    [ base : { Named(n) : n \in RegistryNames }, ext : { ".js" }, applyPoint : Attrs ]

\* a file whose name holds a line terminator: x, a line feed, A.js
TwoLines == [ base |-> << "x", "A" >>, ext |-> ".js", applyPoint |-> Undefined ]

\* what Fs.readdirSync can return there: A.js comes before __proto__.js,
\* and both before the name that begins with x
RegistryDirectories ==
    { <<>>, << Readme >>, << TwoLines >> }
    \cup { << f >> : f \in RegistryFiles }
    \cup { << f, g >> : f \in { x \in RegistryFiles : x.base = Named("A") },
                        g \in { x \in RegistryFiles : x.base = Named("__proto__") } }
    \cup { << f, Readme >> : f \in { x \in RegistryFiles : x.base = Named("A")
                                       /\ x.applyPoint \in { Undefined, Bogus } } }
    \cup { << f, TwoLines >> : f \in { x \in RegistryFiles : x.base = Named("A")
                                         /\ x.applyPoint = False } }

\* the values options.defaultApplyPoint takes in these loads: also names of
\* properties of data that are none of the six maps, the registry's own
\* setHandlers and Object.prototype
RegistryDefaults == LoadDefaults \cup { "setHandlers", "__proto__" }

\* filename.match(/(.+)\.js$/) at lib/index.js:128 and 140: the dot matches
\* no line terminator and $ the end of the name only, so match[1] is what
\* stands between the last line terminator and the extension; NoMatch when
\* that is empty or the extension is another
NoMatch == "<null>"
Match(file) ==
    LET line == file.base[Len(file.base)]
    IN  IF file.ext = ".js" /\ line # "" THEN line ELSE NoMatch

(* ------------------------------------------------------------------ *)
(* State                                                               *)
(* ------------------------------------------------------------------ *)

VARIABLES
    data,               \* the module's registry: names, setHandlers, one map per apply point
    realm,              \* the built-in objects of the process, as far as the module writes to them
    serverExt,          \* host: how many times server.ext was called for each event
    defaultApplyPoint,  \* register's options.defaultApplyPoint, exposed on the server
    loadDefault,        \* options.defaultApplyPoint of the running loadPolicies
    policyFiles,        \* files of the running loadPolicies still to be added
    filesDone,          \* files of the running loadPolicies that addPolicy has added
    loadState,          \* "idle", "loading", or "done" once next was called
    loadErr             \* what the last loadPolicies passed to next, or threw,
                        \* while its caller has not gone on to serve requests

regVars ==
    << data, realm, serverExt, defaultApplyPoint, loadDefault, policyFiles,
       filesDone, loadState, loadErr >>

EmptyMap == [ n \in {} |-> Undefined ]

Range(s) == { s[i] : i \in 1..Len(s) }

(* ------------------------------------------------------------------ *)
(* Objects and their properties                                        *)
(*                                                                     *)
(* data, data.setHandlers and the six maps are plain objects, and      *)
(* data.names is an array: a property that is not their own is looked  *)
(* up in their prototype chain, and an assignment to __proto__ sets    *)
(* the prototype. A policy is the function a file exports: a function  *)
(* of (request, reply, next) without a name, written as the record of  *)
(* its applyPoint attribute; every file exports a function of its own. *)
(* Left out: property names that are array indices or members of       *)
(* Array.prototype, and the accessors arguments and caller of          *)
(* Function.prototype.                                                 *)
(* ------------------------------------------------------------------ *)

\* the names every object inherits from Object.prototype
ObjectPrototype ==
    { "constructor", "__proto__", "hasOwnProperty", "isPrototypeOf",
      "propertyIsEnumerable", "toLocaleString", "toString", "valueOf",
      "__defineGetter__", "__defineSetter__", "__lookupGetter__",
      "__lookupSetter__" }

\* the methods every function inherits from Function.prototype
FunctionPrototype == { "apply", "bind", "call", "constructor", "toString" }

\* the properties a function has of its own
FunctionOwn(policy) ==
    { "length", "name", "prototype" }
    \cup (IF policy.applyPoint # Undefined THEN { "applyPoint" } ELSE {})

\* a value that is not a policy: the property `name` of the object `of`
Value(of, name) == [ applyPoint |-> Undefined, inherited |-> name, of |-> of ]

\* the member of Object.prototype of that name: a function that takes no
\* callback, or, for __proto__, Object.prototype itself
Inherited(name) == Value("Object.prototype", name)

\* the member of Function.prototype of that name
FunctionMember(name) == Value("Function.prototype", name)

\* the function's own property of that name: its length 3, its name '',
\* its prototype object, its applyPoint
OwnOf(policy, name) ==
    [ applyPoint |-> policy.applyPoint, inherited |-> name, of |-> "function" ]

\* the literal true, and undefined
True == Value("literal", "true")
NotFound == Value("literal", "undefined")

\* the prototype of {} and the prototype of []
ObjectProto == Inherited("__proto__")
ArrayProto == Value("Array.prototype", "__proto__")

IsInherited(policy) == "inherited" \in DOMAIN policy

\* !!value
Truthy(value) ==
    IF ~IsInherited(value)
    THEN TRUE
    ELSE IF value.of = "literal"
    THEN value = True
    ELSE IF value.of = "function"
    THEN \/ value.inherited \in { "length", "prototype" }
         \/ value.inherited = "applyPoint" /\ ~Falsy(value.applyPoint)
    ELSE TRUE

\* typeof value === 'function'
IsFunction(value) ==
    IsInherited(value) =>
        \/ value.of = "Object.prototype" /\ value.inherited # "__proto__"
        \/ value.of = "Function.prototype"

\* value(request, reply, next), a call without receiver, returns: a policy
\* does; of the built-in functions Object and Object.prototype.toString do,
\* the others throw a TypeError (they need a receiver) or, for Function, a
\* SyntaxError; and so does the call of what is no function
Returns(value) ==
    IsInherited(value) =>
        value \in { Inherited("constructor"), Inherited("toString") }

\* an object: its own properties and its prototype
EmptyObject == [ own |-> EmptyMap, proto |-> ObjectProto ]

\* the own properties m with the own property k holding v
With(m, k, v) == [ x \in (DOMAIN m) \cup { k } |-> IF x = k THEN v ELSE m[x] ]

\* the realm at the start of the process: the module has added nothing to
\* Object.prototype, and nothing to a function
EmptyRealm == [ objectPrototype |-> EmptyMap, added |-> {} ]

\* Object.prototype[k]
FromObjectPrototype(rlm, k) ==
    IF k \in DOMAIN rlm.objectPrototype
    THEN rlm.objectPrototype[k]
    ELSE IF k \in ObjectPrototype \ { "__proto__" }
    THEN Inherited(k)
    ELSE NotFound

\* the property k as the prototype proto gives it to the objects under it
FromPrototype(proto, rlm, k) ==
    IF IsInherited(proto)
    THEN FromObjectPrototype(rlm, k)
    ELSE IF k \in FunctionOwn(proto)
    THEN OwnOf(proto, k)
    ELSE IF k \in FunctionPrototype
    THEN FunctionMember(k)
    ELSE FromObjectPrototype(rlm, k)

\* object[k], as in applyPointPolicies[routePolicy] (lib/index.js:91-92) and
\* data.setHandlers[applyPoint] (lib/index.js:167)
Get(object, rlm, k) ==
    IF k \in DOMAIN object.own
    THEN object.own[k]
    ELSE IF k = "__proto__"
    THEN object.proto
    ELSE FromPrototype(object.proto, rlm, k)

\* Object.keys(data[ap])
Keys(d, ap) == DOMAIN d.maps[ap].own

\* !!data.setHandlers[ap]
IsSet(d, rlm, ap) == Truthy(Get(d.setHandlers, rlm, ap))

\* data.names has the methods of an array
HasArrayMethods(d) == d.namesObject.proto = ArrayProto

\* lib/index.js:22-31 and 185-194
EmptyData ==
    [ names |-> <<>>,
      namesObject |-> [ own |-> EmptyMap, proto |-> ArrayProto ],
      setHandlers |-> EmptyObject,
      maps |-> [ ap \in ApplyPointSet |-> EmptyObject ] ]

\* an error value: its constructor, the fixed text of its message and the
\* value appended to the text
Null == [ kind |-> "null", text |-> "", arg |-> "" ]

NoError == Null

\* lib/index.js:145
DuplicateName(name) ==
    [ kind |-> "Error", text |-> "Trying to add a duplicate policy: ", arg |-> name ]

\* lib/index.js:156
InvalidApplyPoint(attr) ==
    [ kind |-> "Error", text |-> "Trying to set incorrect applyPoint for the policy: ",
      arg |-> attr ]

\* lib/index.js:164 when data[applyPoint] is undefined: the assignment throws
NoSuchMap(applyPoint) ==
    [ kind |-> "TypeError", text |-> "Cannot set property of undefined: data.",
      arg |-> applyPoint ]

\* an assignment to a property that cannot be written throws (the file is
\* in strict mode): length and name of a function, prototype of Object
ReadOnly(name) ==
    [ kind |-> "TypeError", text |-> "Cannot assign to read only property ",
      arg |-> name ]

\* data.names.length = policy
InvalidLength == [ kind |-> "RangeError", text |-> "Invalid array length", arg |-> "" ]

\* Object.prototype.__proto__ = policy
ImmutablePrototype ==
    [ kind |-> "TypeError", text |-> "Object.prototype cannot have its prototype set",
      arg |-> "" ]

\* lib/index.js:86 and 143 when data.names has lost the methods of an array
NotAFunction(callee) ==
    [ kind |-> "TypeError", text |-> " is not a function", arg |-> callee ]

\* the property k cannot be written on an object under the prototype proto
ReadOnlyIn(proto, k) == ~IsInherited(proto) /\ k \in { "length", "name" }

\* object[k] = value for a value that is a policy or true, as in
\* data[applyPoint][match[1]] = policy (lib/index.js:164) and
\* data.setHandlers[applyPoint] = true (169): the object after it, and what
\* it threw
Put(object, k, value) ==
    IF k \in DOMAIN object.own
    THEN [ object |-> [ object EXCEPT !.own = With(@, k, value) ], err |-> NoError ]
    ELSE IF k = "__proto__"
    THEN [ object |-> IF IsInherited(value)
                      THEN object
                      ELSE [ object EXCEPT !.proto = value ],
           err |-> NoError ]
    ELSE IF ReadOnlyIn(object.proto, k)
    THEN [ object |-> object, err |-> ReadOnly(k) ]
    ELSE [ object |-> [ object EXCEPT !.own = With(@, k, value) ], err |-> NoError ]

\* what data[applyPoint] is: one of the six maps, data.names, data.setHandlers,
\* Object.prototype (for __proto__), a function that data inherits from
\* Object.prototype, or undefined
Holder(rlm, applyPoint) ==
    IF IsApplyPoint(applyPoint)
    THEN "map"
    ELSE IF applyPoint \in { "names", "setHandlers" }
    THEN applyPoint
    ELSE IF applyPoint = "__proto__"
    THEN "Object.prototype"
    ELSE IF FromObjectPrototype(rlm, applyPoint) = NotFound
    THEN "undefined"
    ELSE "function"

(* ------------------------------------------------------------------ *)
(* addPolicy: one file of the directory                                *)
(* ------------------------------------------------------------------ *)

\* lib/index.js:164, data[applyPoint][match[1]] = policy: the registry and
\* the realm after it, and what it threw
assign(d, rlm, applyPoint, name, policy) ==
    LET holder == Holder(rlm, applyPoint)
        failed(e) == [ data |-> d, realm |-> rlm, err |-> e ]
    IN  IF holder = "undefined"
        THEN failed(NoSuchMap(applyPoint))
        ELSE IF holder = "map"
        THEN LET s == Put(d.maps[applyPoint], name, policy)
             IN  [ data |-> [ d EXCEPT !.maps[applyPoint] = s.object ],
                   realm |-> rlm, err |-> s.err ]
        ELSE IF holder = "names"
        THEN IF name = "length"
             THEN failed(InvalidLength)
             ELSE LET s == Put(d.namesObject, name, policy)
                  IN  [ data |-> [ d EXCEPT !.namesObject = s.object ],
                        realm |-> rlm, err |-> s.err ]
        ELSE IF holder = "setHandlers"
        THEN LET s == Put(d.setHandlers, name, policy)
             IN  [ data |-> [ d EXCEPT !.setHandlers = s.object ],
                   realm |-> rlm, err |-> s.err ]
        ELSE IF holder = "Object.prototype"
        THEN IF name = "__proto__"
             THEN failed(ImmutablePrototype)
             ELSE [ data |-> d,
                    realm |-> [ rlm EXCEPT !.objectPrototype = With(@, name, policy) ],
                    err |-> NoError ]
        ELSE LET function == FromObjectPrototype(rlm, applyPoint)
             IN  IF \/ name \in { "length", "name" }
                    \/ function = Inherited("constructor") /\ name = "prototype"
                 THEN failed(ReadOnly(name))
                 ELSE [ data |-> d,
                        realm |-> [ rlm EXCEPT !.added = @ \cup
                                      { [ on |-> function, name |-> name,
                                          value |-> policy ] } ],
                        err |-> NoError ]

\* server.ext(event, handlers[event]) was called once more
Called(ext, event) ==
    [ x \in (DOMAIN ext) \cup { event } |->
        IF x = event
        THEN (IF event \in DOMAIN ext THEN ext[event] ELSE 0) + 1
        ELSE ext[x] ]

\* faulty variant: server.ext is called on every registration at an apply point
connectHandler_Always(d, ext, rlm, applyPoint) ==
    LET s == Put(d.setHandlers, applyPoint, True)
    IN  [ data |-> [ d EXCEPT !.setHandlers = s.object ],
          ext |-> Called(ext, applyPoint),
          err |-> s.err ]

\* lib/index.js:166-170: connect the handler if this is the first policy
connectHandler(d, ext, rlm, applyPoint) ==
    IF IsSet(d, rlm, applyPoint)
    THEN [ data |-> d, ext |-> ext, err |-> NoError ]
    ELSE LET s == Put(d.setHandlers, applyPoint, True)
         IN  [ data |-> [ d EXCEPT !.setHandlers = s.object ],
               ext |-> Called(ext, applyPoint),
               err |-> s.err ]

\* lib/index.js:161-170: the policy is stored at the apply point and the
\* handler connected
store(d, ext, rlm, name, policy, applyPoint) ==
    LET a == assign(d, rlm, applyPoint, name, policy)
        c == connectHandler(a.data, ext, a.realm, applyPoint)
    IN  IF a.err # NoError
        THEN [ data |-> a.data, ext |-> ext, realm |-> a.realm, err |-> a.err ]
        ELSE [ data |-> c.data, ext |-> c.ext, realm |-> a.realm, err |-> c.err ]

\* faulty variant: a name that is already in names is added again
addPolicy_NoDupCheck(d, ext, rlm, file, dflt) ==
    LET name == Match(file)
        policy == [ applyPoint |-> file.applyPoint ]
        pushed == [ d EXCEPT !.names = Append(@, name) ]
        result(after, e) == [ data |-> after, ext |-> ext, realm |-> rlm, err |-> e ]
    IN  IF name = NoMatch
        THEN result(d, NoError)
        ELSE IF ~HasArrayMethods(d)
        THEN result(d, NotAFunction("data.names.indexOf"))
        ELSE IF ~hasValidApplyPoint(policy)
        THEN result(pushed, InvalidApplyPoint(policy.applyPoint))
        ELSE IF policy.applyPoint = Undefined \/ ~Falsy(policy.applyPoint)
        THEN store(pushed, ext, rlm, name, policy,
                   IF Falsy(policy.applyPoint) THEN dflt ELSE policy.applyPoint)
        ELSE result(pushed, NoError)

\* faulty variant: the policy is stored under its name in the map but the name is
\* not recorded
addPolicy_NoPush(d, ext, rlm, file, dflt) ==
    LET name == Match(file)
        policy == [ applyPoint |-> file.applyPoint ]
        result(after, e) == [ data |-> after, ext |-> ext, realm |-> rlm, err |-> e ]
    IN  IF name = NoMatch
        THEN result(d, NoError)
        ELSE IF ~HasArrayMethods(d)
        THEN result(d, NotAFunction("data.names.indexOf"))
        ELSE IF name \in Range(d.names)
        THEN result(d, DuplicateName(name))
        ELSE IF ~hasValidApplyPoint(policy)
        THEN result(d, InvalidApplyPoint(policy.applyPoint))
        ELSE IF policy.applyPoint = Undefined \/ ~Falsy(policy.applyPoint)
        THEN store(d, ext, rlm, name, policy,
                   IF Falsy(policy.applyPoint) THEN dflt ELSE policy.applyPoint)
        ELSE result(d, NoError)

\* faulty variant: a falsy applyPoint is taken as an absent one, and the policy is
\* stored at the default apply point
addPolicy_FalsyIsDefault(d, ext, rlm, file, dflt) ==
    LET name == Match(file)
        policy == [ applyPoint |-> file.applyPoint ]
        pushed == [ d EXCEPT !.names = Append(@, name) ]
        result(after, e) == [ data |-> after, ext |-> ext, realm |-> rlm, err |-> e ]
    IN  IF name = NoMatch
        THEN result(d, NoError)
        ELSE IF ~HasArrayMethods(d)
        THEN result(d, NotAFunction("data.names.indexOf"))
        ELSE IF name \in Range(d.names)
        THEN result(d, DuplicateName(name))
        ELSE IF ~hasValidApplyPoint(policy)
        THEN result(pushed, InvalidApplyPoint(policy.applyPoint))
        ELSE store(pushed, ext, rlm, name, policy,
                   IF Falsy(policy.applyPoint) THEN dflt ELSE policy.applyPoint)

\* faulty variant: the applyPoint is checked before the name is recorded, so a
\* policy with an invalid applyPoint leaves no trace
addPolicy_CheckBeforePush(d, ext, rlm, file, dflt) ==
    LET name == Match(file)
        policy == [ applyPoint |-> file.applyPoint ]
        pushed == [ d EXCEPT !.names = Append(@, name) ]
        result(after, e) == [ data |-> after, ext |-> ext, realm |-> rlm, err |-> e ]
    IN  IF name = NoMatch
        THEN result(d, NoError)
        ELSE IF ~HasArrayMethods(d)
        THEN result(d, NotAFunction("data.names.indexOf"))
        ELSE IF name \in Range(d.names)
        THEN result(d, DuplicateName(name))
        ELSE IF ~hasValidApplyPoint(policy)
        THEN result(d, InvalidApplyPoint(policy.applyPoint))
        ELSE IF policy.applyPoint = Undefined \/ ~Falsy(policy.applyPoint)
        THEN store(pushed, ext, rlm, name, policy,
                   IF Falsy(policy.applyPoint) THEN dflt ELSE policy.applyPoint)
        ELSE result(pushed, NoError)

\* lib/index.js:137-175, addPolicy(filename): the registry, the realm, the
\* host's count of server.ext calls, and the error handed to addPolicyNext
\* or thrown
addPolicy(d, ext, rlm, file, dflt) ==
    LET name == Match(file)
        policy == [ applyPoint |-> file.applyPoint ]
        pushed == [ d EXCEPT !.names = Append(@, name) ]
        result(after, e) == [ data |-> after, ext |-> ext, realm |-> rlm, err |-> e ]
    IN  IF name = NoMatch
        THEN result(d, NoError)
        ELSE IF ~HasArrayMethods(d)
        THEN result(d, NotAFunction("data.names.indexOf"))
        ELSE IF name \in Range(d.names)
        THEN result(d, DuplicateName(name))
        ELSE IF ~hasValidApplyPoint(policy)
        THEN result(pushed, InvalidApplyPoint(policy.applyPoint))
        ELSE IF policy.applyPoint = Undefined \/ ~Falsy(policy.applyPoint)
        THEN store(pushed, ext, rlm, name, policy,
                   IF Falsy(policy.applyPoint) THEN dflt ELSE policy.applyPoint)
        ELSE result(pushed, NoError)

(* ------------------------------------------------------------------ *)
(* Registry administration                                             *)
(* ------------------------------------------------------------------ *)

VARIABLES
    routePolicies,      \* route.settings.plugins.policies of the request being served
    stage,              \* lifecycle position of the request: 0 none yet, 1..6, 7 past the last
    handlersRun,        \* how many of the stage's installed handlers the host has invoked
    call                \* the handler invocation in progress: its closure and its reply interface

reqVars == << routePolicies, stage, handlersRun, call >>

vars == << data, realm, serverExt, defaultApplyPoint, loadDefault, policyFiles,
           filesDone, loadState, loadErr, routePolicies, stage, handlersRun, call >>

\* lib/index.js:125-135 and 177: set the default of this call's options, read
\* the directory and start the series
LoadPolicies(dir, option) ==
    /\ stage = 0
    /\ loadState # "loading"
    /\ loadDefault' = IF Len(dir) = 0 THEN Undefined ELSE OrPreHandler(option)
    /\ policyFiles' = dir
    /\ filesDone' = <<>>
    /\ loadState' = IF Len(dir) = 0 THEN "done" ELSE "loading"
    /\ loadErr' = NoError
    /\ UNCHANGED << data, realm, serverExt, defaultApplyPoint >>
    /\ UNCHANGED reqVars

\* faulty variant: the series goes on to the next file after a failed addPolicy
AddPolicy_ContinuesAfterError ==
    /\ loadState = "loading"
    /\ LET r == addPolicy(data, serverExt, realm, Head(policyFiles), loadDefault)
       IN  /\ data' = r.data
           /\ realm' = r.realm
           /\ serverExt' = r.ext
           /\ loadErr' = r.err
           /\ IF Len(policyFiles) = 1
              THEN /\ policyFiles' = <<>>
                   /\ filesDone' = <<>>
                   /\ loadDefault' = Undefined
                   /\ loadState' = "done"
              ELSE /\ policyFiles' = Tail(policyFiles)
                   /\ filesDone' = Append(filesDone, Head(policyFiles))
                   /\ loadDefault' = loadDefault
                   /\ loadState' = "loading"
    /\ UNCHANGED defaultApplyPoint
    /\ UNCHANGED reqVars

\* lib/index.js:137-180: addPolicy on the next file; an error, or the end of
\* the list, ends the series and calls next
AddPolicy ==
    /\ loadState = "loading"
    /\ LET r == addPolicy(data, serverExt, realm, Head(policyFiles), loadDefault)
       IN  /\ data' = r.data
           /\ realm' = r.realm
           /\ serverExt' = r.ext
           /\ loadErr' = r.err
           /\ IF r.err # NoError \/ Len(policyFiles) = 1
              THEN /\ policyFiles' = <<>>
                   /\ filesDone' = <<>>
                   /\ loadDefault' = Undefined
                   /\ loadState' = "done"
              ELSE /\ policyFiles' = Tail(policyFiles)
                   /\ filesDone' = Append(filesDone, Head(policyFiles))
                   /\ loadDefault' = loadDefault
                   /\ loadState' = "loading"
    /\ UNCHANGED defaultApplyPoint
    /\ UNCHANGED reqVars

\* faulty variant: reset leaves the setHandlers flags as they are
reset_KeepsSetHandlers(d) == [ EmptyData EXCEPT !.setHandlers = d.setHandlers ]

\* lib/index.js:183-195
reset(d) == EmptyData

Reset ==
    /\ stage = 0
    /\ loadState # "loading"
    /\ \A event \in DOMAIN serverExt : serverExt[event] < MaxExt
    /\ data' = reset(data)
    /\ UNCHANGED << realm, serverExt, defaultApplyPoint, loadDefault, policyFiles,
                    filesDone, loadState, loadErr >>
    /\ UNCHANGED reqVars


(* ------------------------------------------------------------------ *)
(* Routes, signals and outcomes                                        *)
(* ------------------------------------------------------------------ *)

\* a directive of a route: a name, an inline function with its applyPoint
\* attribute, or something that is neither
Str(name) == [ type |-> "string", name |-> name, applyPoint |-> Undefined ]
Fn(attr) == [ type |-> "function", name |-> "", applyPoint |-> attr ]
Num == [ type |-> "number", name |-> "", applyPoint |-> Undefined ]

\* route.settings.plugins.policies is not set
NoPolicies == << [ type |-> "undefined", name |-> "", applyPoint |-> Undefined ] >>

\* the routes of the server; "C" is the name of no policy file
Routes ==
    { NoPolicies,
      <<>>,
      << Str("A") >>,
      << Str("A"), Str("constructor") >>,
      << Str("A"), Fn(Undefined), Str("constructor") >>,
      << Str("A"), Str("constructor"), Str("C") >>,
      << Str("C"), Str("A") >>,
      << Fn(Undefined), Str("C") >>,
      << Fn(Undefined) >>,
      << Fn(ExplicitApplyPoint) >>,
      << Fn(False) >>,
      << Fn(Bogus) >>,
      << Str("A"), Fn(Bogus) >>,
      << Fn(Bogus), Str("C") >>,
      << Num >>,
      << Num, Str("C") >>,
      << Fn(ExplicitApplyPoint), Str("A"), Fn(Undefined) >> }

\* Boom.notImplemented('Missing policy: ' + routePolicy), lib/index.js:88
MissingPolicy(name) ==
    [ kind |-> "notImplemented", text |-> "Missing policy: ", arg |-> name ]

\* lib/index.js:99
IncorrectApplyPoint(attr) ==
    [ kind |-> "badImplementation",
      text |-> "Trying to use incorrect applyPoint for the dynamic policy: ",
      arg |-> attr ]

\* lib/index.js:110
NotSpecified ==
    [ kind |-> "badImplementation",
      text |-> "Policy not specified by name or by function.", arg |-> "" ]

\* Boom.forbidden(message), lib/index.js:46
Forbidden(message) == [ kind |-> "forbidden", text |-> "", arg |-> message ]

\* reply.continue()
Continue == [ kind |-> "continue", text |-> "", arg |-> "" ]

\* an error object a policy hands to its callback
PolicyError == [ kind |-> "Error", text |-> "policy failed", arg |-> "" ]

\* what a policy passes to its callback: (err, canContinue, message)
Signals ==
    { [ err |-> Null, canContinue |-> TRUE, message |-> Undefined ],
      [ err |-> Null, canContinue |-> FALSE, message |-> "nope" ],
      [ err |-> Null, canContinue |-> FALSE, message |-> Undefined ],
      [ err |-> PolicyError, canContinue |-> TRUE, message |-> Undefined ] }

NoSignal == [ err |-> Null, canContinue |-> FALSE, message |-> "<none>" ]

IsContinue(s) == s # NoSignal /\ s.err = Null /\ s.canContinue

(* ------------------------------------------------------------------ *)
(* handlers[applyPoint]: resolution of the route's list                *)
(* ------------------------------------------------------------------ *)

\* the accumulator of the reduce, with the closure's repliedWithError, the
\* replies the callback has made, and whether it threw
StartList ==
    [ tmpList |-> <<>>, repliedWithError |-> FALSE, replies |-> <<>>,
      threw |-> FALSE ]

Fail(acc, err) ==
    [ acc EXCEPT !.repliedWithError = TRUE, !.replies = Append(@, err) ]

\* lib/index.js:86 when data.names.indexOf is no function
Throw(acc) == [ acc EXCEPT !.threw = TRUE ]

Push(acc, pos, policy) ==
    [ acc EXCEPT !.tmpList = Append(@, [ pos |-> pos, policy |-> policy ]) ]

\* faulty variant: the callback does not look at repliedWithError, and goes on
\* with the directives after the one it replied an error for
reduceStep_NoRepliedCheck(acc, routePolicy, pos, applyPoint, d, rlm, dflt) ==
    IF acc.threw
    THEN acc
    ELSE IF routePolicy.type = "string"
    THEN IF ~HasArrayMethods(d)
         THEN Throw(acc)
         ELSE IF routePolicy.name \notin Range(d.names)
         THEN Fail(acc, MissingPolicy(routePolicy.name))
         ELSE IF Truthy(Get(d.maps[applyPoint], rlm, routePolicy.name))
         THEN Push(acc, pos, Get(d.maps[applyPoint], rlm, routePolicy.name))
         ELSE acc
    ELSE IF routePolicy.type = "function"
    THEN IF ~hasValidApplyPoint(routePolicy)
         THEN Fail(acc, IncorrectApplyPoint(routePolicy.applyPoint))
         ELSE LET effectiveApplyPoint ==
                     IF Falsy(routePolicy.applyPoint)
                     THEN dflt
                     ELSE routePolicy.applyPoint
              IN  IF effectiveApplyPoint = applyPoint
                  THEN Push(acc, pos, [ applyPoint |-> routePolicy.applyPoint ])
                  ELSE acc
    ELSE Fail(acc, NotSpecified)

\* lib/index.js:76-114: the reduce callback on the directive at position pos
reduceStep(acc, routePolicy, pos, applyPoint, d, rlm, dflt) ==
    IF acc.repliedWithError \/ acc.threw
    THEN acc
    ELSE IF routePolicy.type = "string"
    THEN IF ~HasArrayMethods(d)
         THEN Throw(acc)
         ELSE IF routePolicy.name \notin Range(d.names)
         THEN Fail(acc, MissingPolicy(routePolicy.name))
         ELSE IF Truthy(Get(d.maps[applyPoint], rlm, routePolicy.name))
         THEN Push(acc, pos, Get(d.maps[applyPoint], rlm, routePolicy.name))
         ELSE acc
    ELSE IF routePolicy.type = "function"
    THEN IF ~hasValidApplyPoint(routePolicy)
         THEN Fail(acc, IncorrectApplyPoint(routePolicy.applyPoint))
         ELSE LET effectiveApplyPoint ==
                     IF Falsy(routePolicy.applyPoint)
                     THEN dflt
                     ELSE routePolicy.applyPoint
              IN  IF effectiveApplyPoint = applyPoint
                  THEN Push(acc, pos, [ applyPoint |-> routePolicy.applyPoint ])
                  ELSE acc
    ELSE Fail(acc, NotSpecified)

RECURSIVE reduce(_, _, _, _, _, _, _)
reduce(route, i, acc, applyPoint, d, rlm, dflt) ==
    IF i > Len(route)
    THEN acc
    ELSE reduce(route, i + 1,
                reduceStep(acc, route[i], i, applyPoint, d, rlm, dflt),
                applyPoint, d, rlm, dflt)

(* ------------------------------------------------------------------ *)
(* runPolicies: the sequential executor                                *)
(* ------------------------------------------------------------------ *)

\* one invocation of a handler: the reply interface the host made for it
\* (replied is reply._replied), what the handler passed to it (emitted), and
\* the state of the series over policiesToRun
IdleCall ==
    [ active |-> FALSE,
      policiesToRun |-> <<>>,
      completed |-> 0,
      callbackGone |-> FALSE,
      invoked |-> <<>>,
      first |-> <<>>,
      extra |-> 0,
      replied |-> FALSE,
      otherPath |-> FALSE,
      threw |-> FALSE,
      emitted |-> <<>> ]

\* reply(err) or reply.continue(). The module never writes reply._replied
\* and reads it at lib/index.js:53 only: reply(err) sets it, and whether
\* reply.continue() sets it is the host's (marks)
Reply(c, outcome, marks) ==
    [ c EXCEPT !.replied = @ \/ outcome # Continue \/ marks,
               !.emitted = Append(@, outcome) ]

\* lib/index.js:51-60: the callback of the series
finalCallback(c, err, marks) ==
    IF ~c.replied
    THEN IF err # Null THEN Reply(c, err, marks) ELSE Reply(c, Continue, marks)
    ELSE c

\* faulty variant: the message of a denial is dropped
checkPolicy_NoMessage(signal) ==
    IF signal.err # Null
    THEN signal.err
    ELSE IF signal.canContinue THEN Null ELSE Forbidden(Undefined)

\* lib/index.js:35-48: what the policy's callback passes to next
checkPolicy(signal) ==
    IF signal.err # Null
    THEN signal.err
    ELSE IF signal.canContinue THEN Null ELSE Forbidden(signal.message)

\* the series calls its callback, unless an earlier error replaced it
Callback(c, err, marks) ==
    IF c.callbackGone THEN c ELSE finalCallback(c, err, marks)

\* lib/index.js:37: the series calls checkPolicy on the item at index i of
\* policiesToRun, which calls it as a policy; the call of a function is
\* counted, and the call throws unless the item returns
Invoke(c, i) ==
    LET policy == c.policiesToRun[i].policy
    IN  [ c EXCEPT !.invoked[i] = IF IsFunction(policy) THEN @ + 1 ELSE @,
                   !.threw = @ \/ ~Returns(policy) ]

\* faulty variant: the series goes on to the next policy after an error
seriesNext_NoFailFast(c, err, marks) ==
    LET c1 == [ c EXCEPT !.completed = @ + 1 ]
    IN  IF c1.completed >= Len(c.policiesToRun)
        THEN Callback(c1, err, marks)
        ELSE Invoke(c1, c1.completed + 1)

\* faulty variant: the series does not call its callback after the last policy
seriesNext_NoCompletion(c, err, marks) ==
    IF err # Null
    THEN [ Callback(c, err, marks) EXCEPT !.callbackGone = TRUE ]
    ELSE LET c1 == [ c EXCEPT !.completed = @ + 1 ]
         IN  IF c1.completed >= Len(c.policiesToRun)
             THEN c1
             ELSE Invoke(c1, c1.completed + 1)

\* lib/index.js:51, Async.eachSeries: the function the series hands to the
\* iterator as next
seriesNext(c, err, marks) ==
    IF err # Null
    THEN [ Callback(c, err, marks) EXCEPT !.callbackGone = TRUE ]
    ELSE LET c1 == [ c EXCEPT !.completed = @ + 1 ]
         IN  IF c1.completed >= Len(c.policiesToRun)
             THEN Callback(c1, Null, marks)
             ELSE Invoke(c1, c1.completed + 1)

\* lib/index.js:33-61: runPolicies starts the series
runPolicies(c, list, marks) ==
    LET n == Len(list)
        c0 == [ c EXCEPT !.policiesToRun = list,
                         !.invoked = [ i \in 1..n |-> 0 ],
                         !.first = [ i \in 1..n |-> NoSignal ] ]
    IN  IF n = 0 THEN finalCallback(c0, Null, marks) ELSE Invoke(c0, 1)

\* faulty variant: a failed resolution still runs what it had collected
handler_RunsAfterError(route, applyPoint, d, rlm, dflt, marks) ==
    LET fresh == [ IdleCall EXCEPT !.active = TRUE ]
    IN  IF route = NoPolicies
        THEN Reply(fresh, Continue, marks)
        ELSE LET acc == reduce(route, 1, StartList, applyPoint, d, rlm, dflt)
             IN  IF acc.threw
                 THEN [ fresh EXCEPT !.threw = TRUE ]
                 ELSE IF acc.repliedWithError
                 THEN runPolicies([ fresh EXCEPT !.replied = TRUE,
                                                 !.emitted = acc.replies ],
                                  acc.tmpList, marks)
                 ELSE runPolicies(fresh, acc.tmpList, marks)

\* faulty variant: the test for a route without policies is missing, and the reduce
\* throws on the undefined list before any reply
handler_NoRouteGuard(route, applyPoint, d, rlm, dflt, marks) ==
    LET fresh == [ IdleCall EXCEPT !.active = TRUE ]
    IN  IF route = NoPolicies
        THEN fresh
        ELSE LET acc == reduce(route, 1, StartList, applyPoint, d, rlm, dflt)
             IN  IF acc.threw
                 THEN [ fresh EXCEPT !.threw = TRUE ]
                 ELSE IF acc.repliedWithError
                 THEN [ fresh EXCEPT !.replied = TRUE, !.emitted = acc.replies ]
                 ELSE runPolicies(fresh, acc.tmpList, marks)

\* lib/index.js:67-122: handlers[applyPoint](request, reply)
handler(route, applyPoint, d, rlm, dflt, marks) ==
    LET fresh == [ IdleCall EXCEPT !.active = TRUE ]
    IN  IF route = NoPolicies
        THEN Reply(fresh, Continue, marks)
        ELSE LET acc == reduce(route, 1, StartList, applyPoint, d, rlm, dflt)
             IN  IF acc.threw
                 THEN [ fresh EXCEPT !.threw = TRUE ]
                 ELSE IF acc.repliedWithError
                 THEN [ fresh EXCEPT !.replied = TRUE, !.emitted = acc.replies ]
                 ELSE runPolicies(fresh, acc.tmpList, marks)

(* ------------------------------------------------------------------ *)
(* The host's lifecycle and the policies                               *)
(* ------------------------------------------------------------------ *)

Stage == IF stage \in 1..Len(applyPoints) THEN applyPoints[stage] ELSE "none"

\* the host goes on after a handler when the handler told it to continue
Continued(c) ==
    /\ c.emitted # <<>>
    /\ c.emitted[1] = Continue
    /\ ~c.otherPath

CanProceed == ~call.active \/ Continued(call)

\* a request arrives for a route of the server
NewRequest(route) ==
    /\ stage = 0
    /\ loadState # "loading"
    /\ routePolicies' = route
    /\ stage' = 1
    /\ handlersRun' = 0
    /\ call' = IdleCall
    /\ loadErr' = NoError
    /\ UNCHANGED << data, realm, serverExt, defaultApplyPoint, loadDefault,
                    policyFiles, filesDone, loadState >>

\* the host calls the next handler installed at the stage the request is
\* in, with a reply interface of its own making
HostInvoke ==
    /\ stage \in 1..Len(applyPoints)
    /\ handlersRun < serverExt[Stage]
    /\ CanProceed
    /\ handlersRun' = handlersRun + 1
    /\ call' \in { handler(routePolicies, Stage, data, realm, defaultApplyPoint,
                              marks) : marks \in BOOLEAN }
    /\ UNCHANGED << routePolicies, stage >>
    /\ UNCHANGED regVars

\* every handler of the stage has continued: the request enters the next stage
LeaveStage ==
    /\ stage \in 1..Len(applyPoints)
    /\ handlersRun = serverExt[Stage]
    /\ CanProceed
    /\ stage' = stage + 1
    /\ handlersRun' = 0
    /\ call' = IdleCall
    /\ UNCHANGED routePolicies
    /\ UNCHANGED regVars

CanSignal(i) ==
    /\ call.active
    /\ i \in DOMAIN call.invoked
    /\ call.invoked[i] > 0
    /\ ~IsInherited(call.policiesToRun[i].policy)
    /\ call.first[i] = NoSignal \/ call.extra < MaxExtraSignals

Noted(c, i, signal) ==
    IF c.first[i] = NoSignal
    THEN [ c EXCEPT !.first[i] = signal ]
    ELSE [ c EXCEPT !.extra = @ + 1 ]

\* lib/index.js:37-47: an invoked policy calls its callback, and the series
\* takes the call
Signal(i, signal) ==
    /\ CanSignal(i)
    /\ call' \in { seriesNext(Noted(call, i, signal), checkPolicy(signal), marks) :
                      marks \in BOOLEAN }
    /\ UNCHANGED << routePolicies, stage, handlersRun >>
    /\ UNCHANGED regVars

\* an invoked policy calls its callback again, and the series (a version of
\* the library that wraps next to be called once) throws instead of taking it
SignalRefused(i, signal) ==
    /\ CanSignal(i)
    /\ call.first[i] # NoSignal
    /\ call' = Noted(call, i, signal)
    /\ UNCHANGED << routePolicies, stage, handlersRun >>
    /\ UNCHANGED regVars

\* the reply interface after a policy called reply(x) on it, or
\* reply.continue() when continues: reply(x) sets reply._replied, and
\* whether reply.continue() sets it is the host's (marks); otherPath records
\* that the flag was set this way before any reply of the handler
OwnReply(c, continues, marks) ==
    LET sets == ~continues \/ marks
    IN  [ c EXCEPT !.replied = @ \/ sets,
                   !.otherPath = @ \/ (sets /\ ~c.replied /\ c.emitted = <<>>) ]

\* an invoked policy replies to the request itself
PolicyReplies ==
    /\ call.active
    /\ \E i \in DOMAIN call.invoked :
          call.invoked[i] > 0 /\ ~IsInherited(call.policiesToRun[i].policy)
    /\ call' \in { OwnReply(call, continues, marks) :
                      continues \in BOOLEAN, marks \in BOOLEAN }
    /\ UNCHANGED << routePolicies, stage, handlersRun >>
    /\ UNCHANGED regVars

(* ------------------------------------------------------------------ *)
(* Specification                                                       *)
(* ------------------------------------------------------------------ *)

Init ==
    /\ data = EmptyData
    /\ realm = EmptyRealm
    /\ serverExt = [ event \in ApplyPointSet |-> 0 ]
    /\ defaultApplyPoint \in DefaultChoices
    /\ loadDefault = Undefined
    /\ policyFiles = <<>>
    /\ filesDone = <<>>
    /\ loadState = "idle"
    /\ loadErr = NoError
    /\ routePolicies = NoPolicies
    /\ stage = 0
    /\ handlersRun = 0
    /\ call = IdleCall

Next ==
    \/ \E dir \in Directories, option \in LoadDefaults : LoadPolicies(dir, option)
    \/ AddPolicy
    \/ Reset
    \/ \E route \in Routes : NewRequest(route)
    \/ HostInvoke
    \/ LeaveStage
    \/ \E i \in DOMAIN call.invoked, signal \in Signals : Signal(i, signal)
    \/ \E i \in DOMAIN call.invoked, signal \in Signals : SignalRefused(i, signal)
    \/ PolicyReplies

Spec == Init /\ [][Next]_vars

\* the steps of the plugin while no request is served
NextRegistry ==
    \/ \E dir \in RegistryDirectories, option \in RegistryDefaults :
          LoadPolicies(dir, option)
    \/ AddPolicy
    \/ Reset

\* the registry under loads and resets alone
SpecRegistry == Init /\ [][NextRegistry]_vars

\* lib/index.js:37-47 with policies that call their callback once: the
\* first, and only, call of an invoked policy's callback
SingleSignal(i, signal) ==
    /\ i \in DOMAIN call.first
    /\ call.first[i] = NoSignal
    /\ Signal(i, signal)

\* the steps of the plugin when every policy calls its callback once and
\* none replies to the request itself
NextLive ==
    \/ \E dir \in Directories, option \in LoadDefaults : LoadPolicies(dir, option)
    \/ AddPolicy
    \/ Reset
    \/ \E route \in Routes : NewRequest(route)
    \/ HostInvoke
    \/ LeaveStage
    \/ \E i \in DOMAIN call.invoked, signal \in Signals : SingleSignal(i, signal)

\* every invoked policy calls its callback in the end
SpecLive ==
    /\ Init
    /\ [][NextLive]_vars
    /\ WF_vars(\E i \in DOMAIN call.invoked, signal \in Signals :
                  SingleSignal(i, signal))



(* ------------------------------------------------------------------ *)
(* Vocabulary of the properties                                        *)
(* ------------------------------------------------------------------ *)

N == Len(call.policiesToRun)

Invoked(i) == call.invoked[i] > 0

Signalled(i) == call.first[i] # NoSignal

Denied(i) == Signalled(i) /\ ~IsContinue(call.first[i])

Names == Range(data.names)

AllKeys == UNION { Keys(data, ap) : ap \in ApplyPointSet }

\* the names of the policies stored at ap in the registry d: the keys of the
\* map, and __proto__ when a policy was assigned to it and is the map's
\* prototype
Stored(d, ap) ==
    Keys(d, ap) \cup (IF IsInherited(d.maps[ap].proto) THEN {} ELSE { "__proto__" })

AllStored == UNION { Stored(data, ap) : ap \in ApplyPointSet }

\* the policy stored at ap under the name
PolicyAt(d, ap, name) ==
    IF name \in Keys(d, ap) THEN d.maps[ap].own[name] ELSE d.maps[ap].proto

StageOf(ap) == CHOOSE i \in 1..Len(applyPoints) : applyPoints[i] = ap

\* a directive the resolution rejects
Invalid(directive) ==
    \/ directive.type = "string" /\ directive.name \notin Names
    \/ /\ directive.type = "function"
       /\ directive.applyPoint \notin { Undefined, False }
       /\ directive.applyPoint \notin ApplyPointSet
    \/ directive.type \notin { "string", "function" }

ErrorOf(directive) ==
    IF directive.type = "string"
    THEN MissingPolicy(directive.name)
    ELSE IF directive.type = "function"
    THEN IncorrectApplyPoint(directive.applyPoint)
    ELSE NotSpecified

HasList == routePolicies # NoPolicies

HasInvalid == HasList /\ \E i \in 1..Len(routePolicies) : Invalid(routePolicies[i])

FirstInvalid ==
    CHOOSE i \in 1..Len(routePolicies) :
        /\ Invalid(routePolicies[i])
        /\ \A j \in 1..(i - 1) : ~Invalid(routePolicies[j])

HasMissingName ==
    /\ HasList
    /\ \E i \in 1..Len(routePolicies) :
          routePolicies[i].type = "string" /\ routePolicies[i].name \notin Names

\* the handler passed a list to runPolicies
Executing == call.active /\ HasList /\ ~HasInvalid

\* the outcome a signal stands for
OutcomeOf(signal) ==
    IF signal.err # Null THEN signal.err ELSE Forbidden(signal.message)

(* ------------------------------------------------------------------ *)
(* C1                                                                  *)
(* ------------------------------------------------------------------ *)

\* C1: while every policy of a handler invocation has signalled at most once,
\* a policy has been invoked only if the one before it signalled continue,
\* and once a policy has signalled a denial or an error no later policy has
\* been invoked and every earlier one was invoked and signalled continue.
C1_OrderAndFailFast ==
    call.extra = 0 =>
        \A i \in 1..N :
            /\ (i > 1 /\ Invoked(i)) => IsContinue(call.first[i - 1])
            /\ Signalled(i) => Invoked(i)
            /\ Denied(i) =>
                  /\ \A j \in (i + 1)..N : ~Invoked(j)
                  /\ \A h \in 1..(i - 1) : Invoked(h) /\ IsContinue(call.first[h])

\* three policies at one stage: the first continued, the second denied, the
\* third was never invoked
C1_Witness ==
    /\ N = 3
    /\ call.extra = 0
    /\ IsContinue(call.first[1])
    /\ Denied(2)
    /\ ~Invoked(3)
    /\ call.emitted = << Forbidden("nope") >>

(* ------------------------------------------------------------------ *)
(* C2                                                                  *)
(* ------------------------------------------------------------------ *)

Finalizations(c) == Len(c.emitted) + (IF c.otherPath THEN 1 ELSE 0)

\* C2: the reply interface of a handler invocation is finalized at most once:
\* the handler emits at most one reply(err) or reply.continue(), and none
\* when the response was finalized through another path.
C2_OneFinalization == Finalizations(call) <= 1

\* the part of C2 that the guard at lib/index.js:53 keeps whatever the host
\* does on reply.continue(): the handler emits nothing once a reply of a
\* policy has set reply._replied, and nothing after a reply(err)
C2_NothingAfterReply ==
    /\ call.otherPath => call.emitted = <<>>
    /\ \A k \in 1..(Len(call.emitted) - 1) : call.emitted[k] = Continue

\* a policy signalled again after the last policy had continued: the
\* callback of the series ran twice, and on a host whose reply.continue()
\* set reply._replied one outcome was emitted
C2_Witness ==
    /\ N > 0
    /\ call.extra > 0
    /\ call.completed > N
    /\ call.replied
    /\ call.emitted = << Continue >>

\* a reply of a policy set reply._replied and all the policies then
\* continued: the handler emitted nothing
C2_WitnessOtherPath ==
    /\ N > 0
    /\ call.otherPath
    /\ call.completed = N
    /\ call.emitted = <<>>

(* ------------------------------------------------------------------ *)
(* C3                                                                  *)
(* ------------------------------------------------------------------ *)

\* C3: the outcome depends on first signals only: when the first signal of
\* every policy that has signalled is a continue, no later signal of any of
\* them makes the handler emit a denial.
C3_FirstSignalDecides ==
    (\A i \in 1..N : Signalled(i) => IsContinue(call.first[i])) =>
        \A k \in 1..Len(call.emitted) : call.emitted[k].kind # "forbidden"

(* ------------------------------------------------------------------ *)
(* C4                                                                  *)
(* ------------------------------------------------------------------ *)

\* C4 as stated: every handler invocation for a route that names a policy
\* not in names replies MissingPolicy and invokes nothing.
C4_AlwaysMissingPolicy ==
    (call.active /\ HasMissingName) =>
        /\ Len(call.emitted) = 1
        /\ call.emitted[1].kind = "notImplemented"
        /\ call.invoked = <<>>

\* C4, amended: every handler invocation for a route that names a policy not
\* in names replies exactly once, with the error of the first invalid
\* directive of the list (MissingPolicy of that name when nothing before it
\* is invalid), and invokes no policy of the list.
C4_FirstInvalidWins ==
    (call.active /\ HasMissingName) =>
        /\ call.emitted = << ErrorOf(routePolicies[FirstInvalid]) >>
        /\ (routePolicies[FirstInvalid].type = "string"
              => call.emitted = << MissingPolicy(routePolicies[FirstInvalid].name) >>)
        /\ call.invoked = <<>>
        /\ call.policiesToRun = <<>>

\* two policies are stored at the stage, C is not registered: neither runs
C4_Witness ==
    /\ call.active
    /\ routePolicies = << Str("A"), Str("constructor"), Str("C") >>
    /\ { "A", "constructor" } \subseteq Keys(data, Stage)
    /\ call.emitted = << MissingPolicy("C") >>
    /\ call.invoked = <<>>

(* ------------------------------------------------------------------ *)
(* C5                                                                  *)
(* ------------------------------------------------------------------ *)

\* C5: adding a file whose name is already in names passes a duplicate-policy
\* error to the caller and changes nothing: names, the maps, the setHandlers
\* flags and the host's handlers stay as they were.
C5_DuplicateLeavesRegistry ==
    [][ (loadState = "loading" /\ Match(Head(policyFiles)) \in Names) =>
            /\ data' = data
            /\ serverExt' = serverExt
            /\ loadErr' = DuplicateName(Match(Head(policyFiles)))
            /\ loadState' = "done" ]_vars

\* a load has just failed on a name that an earlier load had registered,
\* as the prototype of a map of which it is no key
C5_Witness ==
    /\ loadState = "done"
    /\ loadErr = DuplicateName("__proto__")
    /\ "__proto__" \in Names
    /\ \E ap \in ApplyPointSet :
          Keys(data, ap) = {} /\ Stored(data, ap) = { "__proto__" }

(* ------------------------------------------------------------------ *)
(* C6                                                                  *)
(* ------------------------------------------------------------------ *)

\* C6 as stated: the host holds a handler at an apply point exactly when some
\* registered policy targets it.
C6_HostHandlerIffTargeted ==
    \A ap \in ApplyPointSet : serverExt[ap] > 0 <=> Stored(data, ap) # {}

\* C6, amended: the setHandlers flag of an apply point is set exactly when
\* some registered policy targets it, and then the host holds a handler
\* there; the host may hold a handler, left from before a reset, where no
\* policy targets the apply point.
C6_FlagIffTargeted ==
    \A ap \in ApplyPointSet :
        /\ IsSet(data, realm, ap) <=> Stored(data, ap) # {}
        /\ IsSet(data, realm, ap) => serverExt[ap] > 0

\* after a reset: the host still holds the handler, nothing targets the stage
C6_Witness ==
    \E ap \in ApplyPointSet :
        /\ serverExt[ap] > 0
        /\ ~IsSet(data, realm, ap)
        /\ Stored(data, ap) = {}
        /\ \E other \in ApplyPointSet : IsSet(data, realm, other)

(* ------------------------------------------------------------------ *)
(* C7                                                                  *)
(* ------------------------------------------------------------------ *)

\* C7 as stated: with an empty registry (a reset, then a load of an empty
\* directory, which changes nothing) no handler invocation runs a policy or
\* replies anything but continue.
C7_EmptyRegistryPassesAll ==
    (data.names = <<>> /\ call.active) =>
        /\ \A i \in 1..N : ~Invoked(i)
        /\ \A k \in 1..Len(call.emitted) : call.emitted[k] = Continue

\* C7, amended: with an empty registry no stored policy is run, and a request
\* to a route without policies, or with an empty list, is told to continue by
\* every handler the host still holds; a handler left from before the reset
\* still replies MissingPolicy to a route whose list starts with a name, and
\* still runs the inline policies of its stage.
C7_EmptyRegistry ==
    (data.names = <<>> /\ stage \in 1..Len(applyPoints)) =>
        /\ \A i \in 1..N :
              Invoked(i) => routePolicies[call.policiesToRun[i].pos].type = "function"
        /\ (routePolicies \in { NoPolicies, <<>> }) =>
              /\ call.invoked = <<>>
              /\ call.active => call.emitted = << Continue >>
        /\ (call.active /\ HasList /\ routePolicies # <<>>
              /\ routePolicies[1].type = "string") =>
              call.emitted = << MissingPolicy(routePolicies[1].name) >>

\* a handler installed before the reset is invoked for a route without
\* policies and continues
C7_Witness ==
    /\ data = EmptyData
    /\ loadState = "done"
    /\ stage \in 1..Len(applyPoints)
    /\ serverExt[Stage] > 0
    /\ routePolicies = NoPolicies
    /\ call.active
    /\ call.emitted = << Continue >>

(* ------------------------------------------------------------------ *)
(* C8                                                                  *)
(* ------------------------------------------------------------------ *)

\* C8: a request to a route whose only directive is an inline policy without
\* applyPoint does not leave the stage of the default apply point before the
\* policy was invoked there.
C8_InlineRunsAtDefault ==
    [][ ( /\ routePolicies = << Fn(Undefined) >>
          /\ stage = StageOf(defaultApplyPoint)
          /\ stage' = stage + 1 )
        => (N = 1 /\ Invoked(1)) ]_vars

(* ------------------------------------------------------------------ *)
(* C9                                                                  *)
(* ------------------------------------------------------------------ *)

\* the first policy, in list order, whose signal was not a continue
FirstDenied == CHOOSE i \in 1..N : Denied(i) /\ \A h \in 1..(i - 1) : ~Denied(h)

\* C9: while every policy has signalled at most once and nothing else has
\* finalized the response, what the executor has emitted is decided by the
\* signals: the error of the first signal that is not a continue, unchanged,
\* or a forbidden outcome with that signal's message; continue when every
\* policy of the list (or none, for an empty list) has signalled continue;
\* nothing before that.
C9_OutcomeOfSignals ==
    (Executing /\ call.extra = 0 /\ ~call.otherPath) =>
        IF \E i \in 1..N : Denied(i)
        THEN call.emitted = << OutcomeOf(call.first[FirstDenied]) >>
        ELSE IF \A i \in 1..N : IsContinue(call.first[i])
        THEN call.emitted = << Continue >>
        ELSE call.emitted = <<>>

\* the second of two policies signalled an error together with canContinue:
\* the error went to the host as it was
C9_Witness ==
    /\ Executing
    /\ N = 2
    /\ call.extra = 0
    /\ call.first[2] = [ err |-> PolicyError, canContinue |-> TRUE,
                         message |-> Undefined ]
    /\ call.emitted = << PolicyError >>

\* a policy denied with a reason and the host got a forbidden outcome with it
C9_WitnessDenied ==
    /\ Executing
    /\ call.extra = 0
    /\ \E i \in 1..N : call.first[i].message = "nope"
    /\ call.emitted = << Forbidden("nope") >>

\* an empty resolved list: the host is told to continue
C9_WitnessEmpty ==
    /\ Executing
    /\ N = 0
    /\ call.emitted = << Continue >>

(* ------------------------------------------------------------------ *)
(* C10                                                                 *)
(* ------------------------------------------------------------------ *)

\* C10 as stated: names is the union of the key sets of the six maps.
C10_NamesAreKeys == Names = AllKeys

\* C10, amended: the union of the key sets of the six maps is a subset of
\* names, as is the set of the names stored at the six apply points, no name
\* is stored at two apply points and names holds no name twice; names may
\* also hold a name that is a key of no map (the policy's applyPoint is a
\* disabling falsy value, or was rejected as invalid, or storing it threw,
\* or it was stored in another object than a map, or as a map's prototype).
C10_KeysAreNames ==
    /\ AllKeys \subseteq Names
    /\ AllStored \subseteq Names
    /\ \A a, b \in ApplyPointSet :
          a # b => Stored(data, a) \cap Stored(data, b) = {}
    /\ Cardinality(Names) = Len(data.names)

\* A is a key of a map; the other name is in names and is a key of no map,
\* its policy being the prototype of one
C10_Witness ==
    /\ data.names = << "A", "__proto__" >>
    /\ AllKeys = { "A" }
    /\ AllStored = { "A", "__proto__" }
    /\ loadErr = NoError


(* ------------------------------------------------------------------ *)
(* C11                                                                 *)
(* ------------------------------------------------------------------ *)

\* a directive that is valid as the specification has it: a registered name,
\* or a function whose applyPoint is absent or one of the six
ValidDirective(directive) ==
    \/ directive.type = "string" /\ directive.name \in Names
    \/ /\ directive.type = "function"
       /\ directive.applyPoint \in { Undefined } \cup ApplyPointSet

\* the directive is for the apply point ap
Targets(directive, ap) ==
    IF directive.type = "string"
    THEN directive.name \in Stored(data, ap)
    ELSE ap = (IF directive.applyPoint = Undefined
               THEN defaultApplyPoint
               ELSE directive.applyPoint)

\* the positions, in the route's list, of the policies handed to runPolicies
Positions == { call.policiesToRun[k].pos : k \in 1..N }

\* every directive of the route is valid
AllValid ==
    /\ HasList
    /\ \A i \in 1..Len(routePolicies) : ValidDirective(routePolicies[i])

\* the list handed to runPolicies holds, in declared order and once each,
\* exactly the directives whose apply point is the current stage, each with
\* its own policy; no resolution error is replied, and a named policy is
\* invoked only at the stage it is registered at
ListIsStageSubsequence ==
    /\ \A k \in 1..(N - 1) :
          call.policiesToRun[k].pos < call.policiesToRun[k + 1].pos
    /\ Positions =
          { i \in 1..Len(routePolicies) : Targets(routePolicies[i], Stage) }
    /\ \A k \in 1..N :
          LET directive == routePolicies[call.policiesToRun[k].pos]
          IN  call.policiesToRun[k].policy =
                  IF directive.type = "string"
                  THEN PolicyAt(data, Stage, directive.name)
                  ELSE [ applyPoint |-> directive.applyPoint ]
    /\ \A k \in 1..Len(call.emitted) :
          call.emitted[k].kind \notin { "notImplemented", "badImplementation" }
    /\ \A k \in 1..N :
          LET directive == routePolicies[call.policiesToRun[k].pos]
          IN  (Invoked(k) /\ directive.type = "string") =>
                  /\ directive.name \in Stored(data, Stage)
                  /\ \A ap \in ApplyPointSet \ { Stage } :
                        directive.name \notin Stored(data, ap)

\* C11 as stated: when every directive of the route is valid, the list a
\* handler of stage S hands to runPolicies holds, in declared order and once
\* each, exactly the directives whose apply point is S (a name registered
\* at S, a function whose applyPoint, or the default when it has none, is
\* S); directives for other stages are passed over, and a named policy is
\* invoked only at the stage it is registered at.
C11_ListIsStageSubsequence ==
    (call.active /\ AllValid) => ListIsStageSubsequence

\* the part of C11 that the handlers keep: the same, for routes that name no
\* member of Object.prototype, while the maps inherit from Object.prototype
\* and nothing was added to it
C11_ExceptInheritedNames ==
    ( /\ call.active
      /\ AllValid
      /\ \A i \in 1..Len(routePolicies) :
            routePolicies[i].name \notin ObjectPrototype
      /\ \A ap \in ApplyPointSet : data.maps[ap].proto = ObjectProto
      /\ realm.objectPrototype = EmptyMap )
    => ListIsStageSubsequence

\* a function for another stage, a name and a function without applyPoint:
\* the handler of the default stage skipped the first and ran the other two
\* in their order
C11_ExceptInheritedNamesWitness ==
    /\ call.active
    /\ routePolicies = << Fn(ExplicitApplyPoint), Str("A"), Fn(Undefined) >>
    /\ Stage = defaultApplyPoint
    /\ Stage # ExplicitApplyPoint
    /\ N = 2
    /\ call.policiesToRun[1].pos = 2
    /\ call.policiesToRun[2].pos = 3
    /\ Invoked(1) /\ Invoked(2)
    /\ call.emitted = << Continue >>

(* ------------------------------------------------------------------ *)
(* C12                                                                 *)
(* ------------------------------------------------------------------ *)

\* C12: server.ext is called for an apply point only by a step that makes
\* the first registration at it since the registry was last empty, and that
\* step calls it once; a step that registers a further policy at an apply
\* point that already holds one does not call it, and no step calls it for
\* an apply point whose map is empty afterwards.
C12_LazyIdempotentInstall ==
    [][ \A ap \in ApplyPointSet :
          /\ serverExt'[ap] # serverExt[ap] =>
                /\ serverExt'[ap] = serverExt[ap] + 1
                /\ ~IsSet(data, realm, ap)
                /\ Stored(data, ap) = {}
                /\ Stored(data', ap) # {}
          /\ (Stored(data, ap) = {} /\ Stored(data', ap) # {}) =>
                serverExt'[ap] = serverExt[ap] + 1
          /\ (Stored(data, ap) # {} /\ Stored(data', ap) # Stored(data, ap)
                                    /\ Stored(data', ap) # {}) =>
                serverExt'[ap] = serverExt[ap]
      ]_vars

\* two policies registered at one apply point, one under its name and one
\* as the map's prototype, and server.ext called once for it and never for
\* another
C12_Witness ==
    \E ap \in ApplyPointSet :
        /\ Keys(data, ap) = { "A" }
        /\ Stored(data, ap) = { "A", "__proto__" }
        /\ serverExt[ap] = 1
        /\ \A other \in ApplyPointSet \ { ap } : serverExt[other] = 0


(* ------------------------------------------------------------------ *)
(* C13                                                                 *)
(* ------------------------------------------------------------------ *)

\* where addPolicy stores the policy of the entry: its applyPoint, or the
\* default of the load when it has none
TargetOf(file) ==
    IF file.applyPoint = Undefined THEN loadDefault ELSE file.applyPoint

\* the object under the prototype proto takes no assignment to the name
Refuses(object, name) ==
    name \notin DOMAIN object.own /\ ReadOnlyIn(object.proto, name)

\* what the assignment that stores the entry in d throws, NoError if it
\* throws nothing
ThrownBy(file, d) ==
    LET name == Match(file)
        target == TargetOf(file)
        holder == Holder(realm, target)
    IN  IF holder = "undefined"
        THEN NoSuchMap(target)
        ELSE IF holder = "map" /\ Refuses(d.maps[target], name)
        THEN ReadOnly(name)
        ELSE IF holder = "setHandlers" /\ Refuses(d.setHandlers, name)
        THEN ReadOnly(name)
        ELSE IF holder = "function" /\ name \in { "length", "name" }
        THEN ReadOnly(name)
        ELSE IF holder = "Object.prototype" /\ name = "__proto__"
        THEN ImmutablePrototype
        ELSE NoError

\* the entry cannot be registered in the registry d
FailsIn(file, d) ==
    /\ Match(file) # NoMatch
    /\ \/ Match(file) \in Range(d.names)
       \/ ~hasValidApplyPoint([ applyPoint |-> file.applyPoint ])
       \/ file.applyPoint # False /\ ThrownBy(file, d) # NoError

\* the error of an entry that cannot be registered in d
FailureOf(file, d) ==
    IF Match(file) \in Range(d.names)
    THEN DuplicateName(Match(file))
    ELSE IF ~hasValidApplyPoint([ applyPoint |-> file.applyPoint ])
    THEN InvalidApplyPoint(file.applyPoint)
    ELSE ThrownBy(file, d)

\* the entry, which addPolicy took without error, is registered in d
RegisteredIn(file, d) ==
    Match(file) # NoMatch =>
        /\ Match(file) \in Range(d.names)
        /\ (file.applyPoint # False /\ IsApplyPoint(TargetOf(file))) =>
              Match(file) \in Stored(d, TargetOf(file))

\* C13: a load takes its entries one at a time in the directory's order.
\* The step on an entry that fails (its name is taken, or its applyPoint
\* is invalid, or the assignment that stores it throws) ends the load with
\* that entry's error, leaves every entry taken before it registered, calls
\* server.ext for nothing and registers no entry that comes after it; a step on an entry that does not fail reports
\* no error and goes on with the entries left; and once a load has ended,
\* nothing is registered and server.ext is not called until a load begins.
C13_StopsAtFirstFailure ==
    [][ /\ loadState = "loading" =>
            LET file == Head(policyFiles)
            IN  IF FailsIn(file, data)
                THEN /\ loadState' = "done"
                     /\ loadErr' = FailureOf(file, data)
                     /\ serverExt' = serverExt
                     /\ data'.maps = data.maps
                     /\ data'.setHandlers = data.setHandlers
                     /\ \A k \in 1..Len(filesDone) :
                           RegisteredIn(filesDone[k], data')
                     /\ \A k \in 2..Len(policyFiles) :
                           Match(policyFiles[k]) \in Range(data'.names) =>
                              \/ Match(policyFiles[k]) \in Names
                              \/ Match(policyFiles[k]) = Match(file)
                ELSE /\ loadErr' = NoError
                     /\ RegisteredIn(file, data')
                     /\ \A k \in 1..Len(filesDone) :
                           RegisteredIn(filesDone[k], data')
                     /\ IF Len(policyFiles) = 1
                        THEN loadState' = "done"
                        ELSE /\ loadState' = "loading"
                             /\ policyFiles' = Tail(policyFiles)
        /\ (loadState = "done" /\ loadState' = "done") =>
              /\ data' \in { data, EmptyData }
              /\ serverExt' = serverExt
      ]_vars

\* a load ended on its second entry, whose applyPoint is invalid: the error
\* is that entry's, and the first entry is registered
C13_Witness ==
    /\ loadState = "done"
    /\ loadErr = InvalidApplyPoint(Bogus)
    /\ data.names = << "A", "__proto__" >>
    /\ "A" \in AllStored
    /\ "__proto__" \notin AllStored
    /\ \E ap \in ApplyPointSet : serverExt[ap] = 1


(* ------------------------------------------------------------------ *)
(* C14                                                                 *)
(* ------------------------------------------------------------------ *)

\* names that are recorded and stored at no apply point
Unstored == Names \ AllStored

\* the named directives of the route whose name is recorded but not stored
UnstoredDirectives ==
    { i \in 1..Len(routePolicies) :
        routePolicies[i].type = "string" /\ routePolicies[i].name \in Unstored }

\* C14: the step that registers a policy whose applyPoint is false appends
\* its name to names, reports no error, changes no map and no setHandlers
\* flag and does not call server.ext; a later addPolicy on a name that is
\* recorded but stored nowhere fails with the duplicate error and changes
\* nothing; and a handler, at any stage, never hands such a policy to
\* runPolicies (what it hands over for a directive naming it, if anything,
\* is the member of Object.prototype of that name) and replies no
\* MissingPolicy for it.
C14_DisabledPolicy ==
    /\ [][ loadState = "loading" =>
              LET file == Head(policyFiles)
                  name == Match(file)
              IN  /\ (name # NoMatch /\ name \notin Names
                                     /\ file.applyPoint = False) =>
                         /\ data'.names = Append(data.names, name)
                         /\ data'.maps = data.maps
                         /\ data'.setHandlers = data.setHandlers
                         /\ serverExt' = serverExt
                         /\ loadErr' = NoError
                  /\ name \in Unstored =>
                         /\ loadErr' = DuplicateName(name)
                         /\ data' = data
                         /\ serverExt' = serverExt
         ]_vars
    /\ [](call.active =>
            \A i \in UnstoredDirectives :
                /\ \A k \in 1..N :
                      call.policiesToRun[k].pos = i =>
                          /\ routePolicies[i].name \in ObjectPrototype
                          /\ call.policiesToRun[k].policy =
                                Inherited(routePolicies[i].name)
                /\ \A k \in 1..Len(call.emitted) :
                      call.emitted[k] # MissingPolicy(routePolicies[i].name))

\* the route names A, which is recorded and stored nowhere, and a policy
\* stored at the stage: the handler ran that one alone and continued
C14_Witness ==
    /\ data.names = << "A", "constructor" >>
    /\ Unstored = { "A" }
    /\ routePolicies = << Str("A"), Str("constructor") >>
    /\ call.active
    /\ Positions = { 2 }
    /\ Invoked(1)
    /\ call.emitted = << Continue >>


(* ------------------------------------------------------------------ *)
(* C15                                                                 *)
(* ------------------------------------------------------------------ *)

\* the handler replied an error of the resolution
ResolutionFailed ==
    \E k \in 1..Len(call.emitted) :
        call.emitted[k].kind \in { "notImplemented", "badImplementation" }

\* how many directives of the route are invalid
InvalidCount ==
    Cardinality({ i \in 1..Len(routePolicies) : Invalid(routePolicies[i]) })

\* C15: a handler replies an error of the resolution exactly when some
\* directive of the route is invalid; it then replies once, the error of
\* the first invalid directive in the list's order, however many directives
\* are invalid, and runPolicies is not called: no list is handed over, no
\* policy is invoked and the series takes no step.
C15_FirstErrorOnceNoExecution ==
    call.active =>
        /\ ResolutionFailed <=> HasInvalid
        /\ HasInvalid =>
              /\ Len(call.emitted) = 1
              /\ call.emitted[1] = ErrorOf(routePolicies[FirstInvalid])
              /\ call.replied
              /\ ~call.otherPath
              /\ call.policiesToRun = <<>>
              /\ call.invoked = <<>>
              /\ call.completed = 0

\* two invalid directives, a function with an invalid applyPoint before a
\* name that is not registered: one reply, the error of the function
C15_Witness ==
    /\ call.active
    /\ routePolicies = << Fn(Bogus), Str("C") >>
    /\ InvalidCount = 2
    /\ call.emitted = << IncorrectApplyPoint(Bogus) >>
    /\ call.invoked = <<>>


(* ------------------------------------------------------------------ *)
(* C16                                                                 *)
(* ------------------------------------------------------------------ *)

\* the directive is a function whose applyPoint is present and is not one of
\* the six apply points
PresentInvalid(directive) ==
    /\ directive.type = "function"
    /\ directive.applyPoint # Undefined
    /\ directive.applyPoint \notin ApplyPointSet

\* C16 as stated: a function whose applyPoint is present and not one of the
\* six is never handed to runPolicies, and the handler that resolves it
\* after nothing but valid directives replies the incorrect-applyPoint
\* error for it and invokes nothing.
C16_PresentInvalidNeverRuns ==
    call.active =>
        \A i \in 1..Len(routePolicies) :
            PresentInvalid(routePolicies[i]) =>
                /\ i \notin Positions
                /\ (\A h \in 1..(i - 1) : ValidDirective(routePolicies[h])) =>
                      /\ call.emitted =
                            << IncorrectApplyPoint(routePolicies[i].applyPoint) >>
                      /\ call.invoked = <<>>


(* ------------------------------------------------------------------ *)
(* C17                                                                 *)
(* ------------------------------------------------------------------ *)

\* the policies that have been invoked and have not signalled
InFlight == { i \in 1..N : Invoked(i) /\ ~Signalled(i) }

\* C17 as stated: in a handler invocation at most one policy is invoked and
\* has not yet signalled, and no policy is invoked twice, whatever the
\* policies signal and however often.
C17_OneInFlightInvokedOnce ==
    call.active =>
        /\ Cardinality(InFlight) <= 1
        /\ \A i \in 1..N : call.invoked[i] <= 1

\* the part of C17 that the series keeps: no policy is invoked twice
C17_InvokedOnce == \A i \in 1..N : call.invoked[i] <= 1


(* ------------------------------------------------------------------ *)
(* C18                                                                 *)
(* ------------------------------------------------------------------ *)

\* the name the last addPolicy recorded
FailedName == data.names[Len(data.names)]

\* C18: addPolicy on a new name whose applyPoint is invalid reports the
\* invalid-applyPoint error and ends the load, and has by then appended the
\* name to names, with the maps, the setHandlers flags and the host's
\* handlers as they were; while that error stands the name is the last of
\* names and is stored at no apply point; addPolicy on a name that is in
\* names fails with the duplicate error; and a handler replies
\* MissingPolicy for no name that is in names.
C18_FailedNameStaysRecorded ==
    /\ [][ loadState = "loading" =>
              LET file == Head(policyFiles)
                  name == Match(file)
              IN  /\ ( /\ name # NoMatch
                       /\ name \notin Names
                       /\ ~hasValidApplyPoint([ applyPoint |-> file.applyPoint ]) )
                     =>
                         /\ loadErr' = InvalidApplyPoint(file.applyPoint)
                         /\ loadState' = "done"
                         /\ data' # data
                         /\ data'.names = Append(data.names, name)
                         /\ data'.maps = data.maps
                         /\ data'.setHandlers = data.setHandlers
                         /\ serverExt' = serverExt
                  /\ name \in Names => loadErr' = DuplicateName(name)
         ]_vars
    /\ []( (loadErr = InvalidApplyPoint(loadErr.arg) /\ data.names # <<>>) =>
              FailedName \notin AllStored )
    /\ [](call.active =>
            \A k \in 1..Len(call.emitted), name \in Names :
                call.emitted[k] # MissingPolicy(name))

\* the last load failed on A for its applyPoint, after an earlier one had
\* stored a policy: A is the last of names and is stored nowhere
C18_Witness ==
    /\ loadState = "done"
    /\ loadErr = InvalidApplyPoint(Bogus)
    /\ data.names = << "constructor", "A" >>
    /\ FailedName = "A"
    /\ Unstored = { "A" }

(* ------------------------------------------------------------------ *)
(* C19                                                                 *)
(* ------------------------------------------------------------------ *)

\* what the handler handed to runPolicies are policies, which call their
\* callback, and no member of Object.prototype, which calls none
EveryPolicySignals ==
    \A k \in 1..N : ~IsInherited(call.policiesToRun[k].policy)

\* C19: when every invoked policy calls its callback once, in the end, and
\* none replies to the request itself, every handler invocation comes to
\* have replied, and never replies more than once; and as long as an invoked
\* policy has not called its callback, the handler has replied nothing and
\* no policy after that one has been invoked.
C19_EveryInvocationReplies ==
    /\ [](Len(call.emitted) <= 1)
    /\ [](\A i \in InFlight :
              /\ call.emitted = <<>>
              /\ \A j \in (i + 1)..N : ~Invoked(j))
    /\ ((call.active /\ EveryPolicySignals)
            ~> (call.active /\ Len(call.emitted) = 1))

\* three policies at one stage have each continued, and the handler has
\* replied continue
C19_Witness ==
    /\ N = 3
    /\ \A i \in 1..N : Invoked(i) /\ IsContinue(call.first[i])
    /\ call.extra = 0
    /\ ~call.otherPath
    /\ call.emitted = << Continue >>


(* ------------------------------------------------------------------ *)
(* C20                                                                 *)
(* ------------------------------------------------------------------ *)

\* C20 as stated: whatever loads and resets came before, the host holds at
\* most one handler of the plugin for each apply point, and so invokes at
\* most one handler for a request at each stage: a policy of the route runs
\* at most once at the stage.
C20_OneHandlerPerApplyPoint ==
    /\ \A ap \in ApplyPointSet : serverExt[ap] <= 1
    /\ handlersRun <= 1

====
